---- MODULE Spec2Model ----
(***************************************************************************)
(* Model of decker: the card/deck data model (deck.py) and the Carta board *)
(* (carta.py): grid assembly from a deck and the movement session.         *)
(*                                                                         *)
(* A card is a record; `owner` stands for the object's identity (the       *)
(* cards a PlayingCardDeck creates are distinct objects from the two cards *)
(* the caller constructs), while PlayingCard.__eq__ looks only at          *)
(* (value, suit.value).  A grid cell is a bool placeholder or a card.      *)
(***************************************************************************)
EXTENDS Integers, Sequences, FiniteSets, TLC

(* ---- bounds of the model ---------------------------------------------- *)
\* ranks per suit in the modelled deck (the code builds 13 per suit)
RanksPerSuit == 2
\* largest grid template handed to the constructor
MaxRows == 2
MaxCols == 2
\* cards the caller may have dealt from the deck before building the board
MaxPreDeal == 5

(* ---- program constants ------------------------------------------------ *)
\* carta.py:102  counter = 5
TurnBudget == 5
\* carta.py:17-19  Q = QUIT = EXIT = 100
QuitValue == 100

\* deck.py:236  max_range = min_range + 13
CardsPerSuit == 13
\* deck.py:250-251  Suit(None, 100, color), value=100
JokerValue == 100

(* ======================================================================= *)
(* deck.py                                                                 *)
(* ======================================================================= *)

\* Suit.__init__: value defaults to 0 when no int is given
Suit(name) == [name |-> name, value |-> 0]

\* PlayingCard.__init__ (Card.__init__ sets is_faceup = False, kept in the
\* state variable is_faceup)
PlayingCard(suit, value, owner) ==
    [kind |-> "card", suit |-> suit, value |-> value, owner |-> owner]

\* PlayingCard.__eq__: (value, suit.value) tuples compared
CardEq(a, b) == <<a.value, a.suit.value>> = <<b.value, b.suit.value>>

\* PlayingCardDeck.__init__: the default suits, in this order
DefaultSuits ==
    << Suit("Clubs"), Suit("Diamonds"), Suit("Hearts"), Suit("Spades") >>

\* the two lowest ranks exchanged: 1 with aces high, 2 with aces low
MinRange_Swapped(aces_high) == IF aces_high THEN 1 ELSE 2

\* PlayingCardDeck._build without jokers: suit by suit, ascending value
MinRange(aces_high) == IF aces_high THEN 2 ELSE 1

PlayingCardDeck(aces_high) ==
    LET min_range == MinRange(aces_high)
        n == Len(DefaultSuits) * RanksPerSuit
    IN  [k \in 1..n |->
            PlayingCard(DefaultSuits[((k - 1) \div RanksPerSuit) + 1],
                        min_range + ((k - 1) % RanksPerSuit),
                        "deck")]

\* the swap written as two assignments: lst[i] = lst[r]; lst[r] = lst[i]
Swap_Overwrite(lst, i, r) ==
    [k \in 1..Len(lst) |-> IF k = i + 1 THEN lst[r + 1] ELSE lst[k]]

\* lst[i], lst[r] = lst[r], lst[i]   (0-based positions)
Swap(lst, i, r) ==
    [k \in 1..Len(lst) |->
        IF k = i + 1 THEN lst[r + 1]
        ELSE IF k = r + 1 THEN lst[i + 1]
        ELSE lst[k]]

\* the draw taken from range(0, i), which leaves i out
Randint_Exclusive(i) == 0..(i - 1)

\* random.randint(0, i): both ends included
Randint(i) == 0..i

\* shuffle: for i in range(len(lst) - 1, 0, -1), every outcome of the draws
RECURSIVE ShuffleFrom(_, _)
ShuffleFrom(lst, i) ==
    IF i < 1 THEN {lst}
    ELSE UNION { ShuffleFrom(Swap(lst, i, r), i - 1) : r \in Randint(i) }

shuffle(lst) == ShuffleFrom(lst, Len(lst) - 1)

\* deal popping from the right end of the deque
RECURSIVE deal_PopRight(_, _)
deal_PopRight(cards, n) ==
    IF n <= 0 THEN [err |-> FALSE, dealt |-> <<>>, cards |-> cards]
    ELSE IF cards = <<>> THEN [err |-> TRUE, dealt |-> <<>>, cards |-> <<>>]
    ELSE LET rest == deal_PopRight(SubSeq(cards, 1, Len(cards) - 1), n - 1)
         IN  [err |-> rest.err,
              dealt |-> IF rest.err THEN <<>>
                        ELSE <<cards[Len(cards)]>> \o rest.dealt,
              cards |-> rest.cards]

\* deal checking the length before it pops anything
deal_Atomic(cards, n) ==
    IF n <= 0 THEN [err |-> FALSE, dealt |-> <<>>, cards |-> cards]
    ELSE IF n > Len(cards) THEN [err |-> TRUE, dealt |-> <<>>, cards |-> cards]
    ELSE [err |-> FALSE, dealt |-> SubSeq(cards, 1, n),
          cards |-> SubSeq(cards, n + 1, Len(cards))]

\* Deck.deal: popleft n times; IndexError when the deque runs empty
RECURSIVE deal(_, _)
deal(cards, n) ==
    IF n <= 0 THEN [err |-> FALSE, dealt |-> <<>>, cards |-> cards]
    ELSE IF cards = <<>> THEN [err |-> TRUE, dealt |-> <<>>, cards |-> <<>>]
    ELSE LET rest == deal(Tail(cards), n - 1)
         IN  [err |-> rest.err,
              dealt |-> IF rest.err THEN <<>> ELSE <<Head(cards)>> \o rest.dealt,
              cards |-> rest.cards]

\* deque.index / deque.remove: the first element equal to card
IndexOf(cards, card) ==
    LET hits == { k \in 1..Len(cards) : CardEq(cards[k], card) }
    IN  IF hits = {} THEN 0
        ELSE CHOOSE k \in hits : \A h \in hits : k <= h

\* remove deleting the last equal element instead of the first
remove_LastEqual(cards, card) ==
    LET hits == { k \in 1..Len(cards) : CardEq(cards[k], card) }
    IN  IF hits = {} THEN [err |-> TRUE, cards |-> cards]
        ELSE LET k == CHOOSE h \in hits : \A g \in hits : g <= h
             IN  [err |-> FALSE,
                  cards |-> [j \in 1..(Len(cards) - 1) |->
                                IF j < k THEN cards[j] ELSE cards[j + 1]]]

\* Deck.remove: ValueError when no element is equal
remove(cards, card) ==
    LET k == IndexOf(cards, card)
    IN  IF k = 0 THEN [err |-> TRUE, cards |-> cards]
        ELSE [err |-> FALSE,
              cards |-> [j \in 1..(Len(cards) - 1) |->
                            IF j < k THEN cards[j] ELSE cards[j + 1]]]

(* ======================================================================= *)
(* carta.py                                                                *)
(* ======================================================================= *)

\* class Direction: auto() numbers the members 1..8; Q, QUIT and EXIT share
\* one value and so are one member
Direction ==
    [N |-> 1, NW |-> 2, NE |-> 3, S |-> 4, SW |-> 5, SE |-> 6, E |-> 7,
     W |-> 8, Q |-> QuitValue, QUIT |-> QuitValue, EXIT |-> QuitValue]

\* member names, spelled as the characters of the input line
DirectionNames ==
    { <<"N">>, <<"N", "W">>, <<"N", "E">>, <<"S">>, <<"S", "W">>,
      <<"S", "E">>, <<"E">>, <<"W">>, <<"Q">>, <<"Q", "U", "I", "T">>,
      <<"E", "X", "I", "T">> }

\* Direction[name]
DirectionByName(name) ==
    CASE name = <<"N">> -> Direction.N
      [] name = <<"N", "W">> -> Direction.NW
      [] name = <<"N", "E">> -> Direction.NE
      [] name = <<"S">> -> Direction.S
      [] name = <<"S", "W">> -> Direction.SW
      [] name = <<"S", "E">> -> Direction.SE
      [] name = <<"E">> -> Direction.E
      [] name = <<"W">> -> Direction.W
      [] name = <<"Q">> -> Direction.Q
      [] name = <<"Q", "U", "I", "T">> -> Direction.QUIT
      [] name = <<"E", "X", "I", "T">> -> Direction.EXIT

\* str.upper(), character by character
UpperChar(c) ==
    CASE c = "n" -> "N" [] c = "s" -> "S" [] c = "e" -> "E" [] c = "w" -> "W"
      [] c = "q" -> "Q" [] c = "u" -> "U" [] c = "i" -> "I" [] c = "t" -> "T"
      [] c = "x" -> "X" [] OTHER -> c

Upper(line) == [k \in 1..Len(line) |-> UpperChar(line[k])]

\* the placeholder create_grid writes, the other bool, and a cell that is
\* neither a bool nor a Card
TrueCell == [kind |-> "bool", b |-> TRUE]
FalseCell == [kind |-> "bool", b |-> FALSE]
JunkCell == [kind |-> "other", b |-> FALSE]

IsBool(elem) == elem.kind = "bool"
IsTrue(elem) == elem.kind = "bool" /\ elem.b
IsCard(elem) == elem.kind = "card"

\* CartaBoard.create_grid
create_grid(rows, columns) ==
    [i \in 1..rows |-> [j \in 1..columns |-> TrueCell]]

\* is_valid_grid without the isinstance test on the cells
is_valid_grid_NoTypeCheck(g) ==
    LET first_row_len == Len(g[1])
    IN  \A i \in 1..Len(g) : Len(g[i]) = first_row_len

\* CartaBoard.is_valid_grid
is_valid_grid(g) ==
    LET first_row_len == Len(g[1])
    IN  \A i \in 1..Len(g) :
            /\ Len(g[i]) = first_row_len
            /\ \A j \in 1..Len(g[i]) : IsBool(g[i][j])

\* the cells in the order of the two nested range() loops, as (i, j) from 0
RECURSIVE RowCoords(_, _, _)
RowCoords(g, i, j) ==
    IF j >= Len(g[i + 1]) THEN <<>>
    ELSE << <<i, j>> >> \o RowCoords(g, i, j + 1)

RECURSIVE GridCoords(_, _)
GridCoords(g, i) ==
    IF i >= Len(g) THEN <<>>
    ELSE RowCoords(g, i, 0) \o GridCoords(g, i + 1)

\* CartaBoard._available_slots_in_grid
available_slots_in_grid(g) ==
    LET coords == GridCoords(g, 0)
    IN  Cardinality({ k \in 1..Len(coords) :
                        IsTrue(g[coords[k][1] + 1][coords[k][2] + 1]) })

\* self.grid[i][j] = elem
SetCell(g, i, j, elem) ==
    [g EXCEPT ![i + 1] = [@ EXCEPT ![j + 1] = elem]]

\* the value no attribute has yet (player_location before _build sets it)
Unset == <<>>

\* the fill loop without its else branch: a cell met after the cards ran
\* out stays a placeholder
RECURSIVE Fill_NoElse(_, _, _, _, _)
Fill_NoElse(g, grid_cards, loc, starting, coords) ==
    IF coords = <<>> THEN [grid |-> g, player_location |-> loc]
    ELSE LET i == Head(coords)[1]
             j == Head(coords)[2]
         IN  IF IsTrue(g[i + 1][j + 1]) /\ grid_cards # <<>>
             THEN Fill_NoElse(SetCell(g, i, j, grid_cards[Len(grid_cards)]),
                              SubSeq(grid_cards, 1, Len(grid_cards) - 1),
                              loc, starting, Tail(coords))
             ELSE Fill_NoElse(g, grid_cards, loc, starting, Tail(coords))

\* the fill loop recording player_location as (j, i)
RECURSIVE Fill_Transposed(_, _, _, _, _)
Fill_Transposed(g, grid_cards, loc, starting, coords) ==
    IF coords = <<>> THEN [grid |-> g, player_location |-> loc]
    ELSE LET i == Head(coords)[1]
             j == Head(coords)[2]
         IN  IF ~IsTrue(g[i + 1][j + 1])
             THEN Fill_Transposed(g, grid_cards, loc, starting, Tail(coords))
             ELSE IF grid_cards # <<>>
             THEN Fill_Transposed(SetCell(g, i, j, grid_cards[Len(grid_cards)]),
                                  SubSeq(grid_cards, 1, Len(grid_cards) - 1),
                                  loc, starting, Tail(coords))
             ELSE Fill_Transposed(SetCell(g, i, j, starting), grid_cards,
                                  <<j, i>>, starting, Tail(coords))

\* _build, lines 81-88: the fill loop over the cells still True
RECURSIVE Fill(_, _, _, _, _)
Fill(g, grid_cards, loc, starting, coords) ==
    IF coords = <<>> THEN [grid |-> g, player_location |-> loc]
    ELSE LET i == Head(coords)[1]
             j == Head(coords)[2]
         IN  IF ~IsTrue(g[i + 1][j + 1])
             THEN Fill(g, grid_cards, loc, starting, Tail(coords))
             ELSE IF grid_cards # <<>>
             THEN Fill(SetCell(g, i, j, grid_cards[Len(grid_cards)]),
                       SubSeq(grid_cards, 1, Len(grid_cards) - 1),
                       loc, starting, Tail(coords))
             ELSE Fill(SetCell(g, i, j, starting), grid_cards,
                       <<i, j>>, starting, Tail(coords))

\* CartaBoard._build: every outcome of the two shuffles, or the error raised
build(deck, g, goal, starting) ==
    LET r1 == remove(deck, starting)
        r2 == remove(r1.cards, goal)
        n == available_slots_in_grid(g) - 2
        untouched == [grid |-> g, player_location |-> Unset]
    IN  IF r1.err \/ r2.err
        THEN {[err |-> "CardNotFound", board |-> untouched]}
        ELSE UNION {
            LET d == deal(shuffled, n)
            IN  IF d.err THEN {[err |-> "DeckUnderflow", board |-> untouched]}
                ELSE { [err |-> "none",
                        board |-> Fill(g, grid_cards, Unset, starting,
                                       GridCoords(g, 0))] :
                       grid_cards \in shuffle(Append(d.dealt, goal)) }
            : shuffled \in shuffle(r2.cards) }

(* ======================================================================= *)
(* State                                                                   *)
(* ======================================================================= *)

VARIABLES
    pc,                 \* where the program is: "new", "built", "playing",
                        \* "done", "quit", "crashed", "aborted"
    aces_high,          \* the flag the deck was built with
    pre_dealt,          \* cards dealt from the deck before the board is built
    grid,               \* the grid argument, then self.grid
    goal_card,          \* self.goal_card
    starting_card,      \* self.starting_card
    allowed_directions, \* the allowed_directions argument (<<>> for None)
    allowed_diections,  \* self.allowed_diections
    player_location,    \* self.player_location, Unset until _build sets it
    is_faceup,          \* the cards whose is_faceup is True
    counter,            \* start's counter
    token,              \* the line input() returned last
    signal,             \* what the last step raised or did
    moves,              \* the moves made so far, each with where it started,
                        \* its direction, where it ended and the cards
                        \* that were face-up before it
    cards,              \* Deck.cards of the deck the deck operations act on
    include_jokers,     \* the flag of the deck under construction
    op,                 \* the deck operation running or last run
    argument,           \* its argument
    before,             \* Deck.cards when it was called
    result,             \* what it returned or raised
    idx                 \* its loop variable

boardvars == << pc, aces_high, pre_dealt, grid, goal_card, starting_card,
                allowed_directions, allowed_diections, player_location,
                is_faceup, counter, token, signal, moves >>

deckvars == << cards, include_jokers, op, argument, before, result, idx >>

vars == << boardvars, deckvars >>

\* no value: None, or an attribute or variable not set
Nothing == [kind |-> "none"]

\* the deck variables while the board is built and played
DeckUnused ==
    /\ cards = <<>>
    /\ include_jokers = FALSE
    /\ op = "none"
    /\ argument = Nothing
    /\ before = <<>>
    /\ result = Nothing
    /\ idx = 0

(* ---- what the caller passes in ------------------------------------------ *)

\* every rows x columns grid of bools, create_grid's all-True one among them
BoolGrids ==
    UNION { [1..r -> [1..c -> {TrueCell, FalseCell}]] :
            r \in 1..MaxRows, c \in 1..MaxCols }

\* a grid whose last row is one cell short, and one holding a non-bool
BadGrids ==
    { [create_grid(MaxRows, MaxCols + 1) EXCEPT ![MaxRows] = Tail(@)],
      SetCell(create_grid(MaxRows, MaxCols), 0, 0, JunkCell) }

GridTemplates == BoolGrids \cup BadGrids

\* carta.py:172-173 and one goal card of another value
GoalCards ==
    { PlayingCard(Suit("Hearts"), 2, "goal"),
      PlayingCard(Suit("Hearts"), 1, "goal") }

StartingCards == { PlayingCard(Suit("Clubs"), 2, "starting") }

Cardinals == { Direction.N, Direction.S, Direction.E, Direction.W }

Diagonals == { Direction.NE, Direction.NW, Direction.SE, Direction.SW }

\* None (the empty set), a restricted list, and a list naming the diagonals
AllowedConfigs == { {}, {Direction.N, Direction.S}, Cardinals \cup Diagonals }

\* input lines: members in either case, the quit aliases, unknown words
Tokens ==
    { <<"N">>, <<"n">>, <<"S">>, <<"e">>, <<"W">>, <<"N", "E">>,
      <<"s", "w">>, <<"Q">>, <<"q", "u", "i", "t">>, <<"E", "x", "i", "t">>,
      <<"X">>, <<>> }

Init ==
    /\ pc = "new"
    /\ aces_high \in BOOLEAN
    /\ pre_dealt \in {0, MaxPreDeal}
    /\ grid \in GridTemplates
    /\ goal_card \in GoalCards
    /\ starting_card \in StartingCards
    /\ allowed_directions \in AllowedConfigs
    /\ allowed_diections = {}
    /\ player_location = Unset
    /\ is_faceup = {}
    /\ counter = 0
    /\ token = <<>>
    /\ signal = "none"
    /\ moves = <<>>
    /\ DeckUnused

(* ---- construction -------------------------------------------------------- *)

\* the deck handed to the constructor: PlayingCardDeck(aces_high=...), less
\* the cards the caller dealt from it
SuppliedDeck == deal(PlayingCardDeck(aces_high), pre_dealt).cards

\* CartaBoard.__init__, line 63-71
AllowedOrDefault(arg) == IF arg = {} THEN Cardinals ELSE arg

\* CartaBoard.__init__ raising at line 58: nothing is assigned
ConstructInvalidGrid ==
    /\ pc = "new"
    /\ ~is_valid_grid(grid)
    /\ pc' = "aborted"
    /\ signal' = "InvalidGrid"
    /\ UNCHANGED << aces_high, pre_dealt, grid, goal_card, starting_card,
                    allowed_directions, allowed_diections, player_location,
                    is_faceup, counter, token, moves >>
    /\ UNCHANGED deckvars

\* CartaBoard.__init__ with _build raising: starting_card is already face-up
ConstructFails ==
    /\ pc = "new"
    /\ is_valid_grid(grid)
    /\ \E b \in build(SuppliedDeck, grid, goal_card, starting_card) :
        /\ b.err # "none"
        /\ signal' = b.err
    /\ pc' = "aborted"
    /\ is_faceup' = is_faceup \cup {starting_card}
    /\ allowed_diections' = AllowedOrDefault(allowed_directions)
    /\ UNCHANGED << aces_high, pre_dealt, grid, goal_card, starting_card,
                    allowed_directions, player_location, counter, token,
                    moves >>
    /\ UNCHANGED deckvars

\* the constructor without line 62: starting_card stays face-down
Construct_NoFaceUp ==
    /\ pc = "new"
    /\ is_valid_grid(grid)
    /\ \E b \in build(SuppliedDeck, grid, goal_card, starting_card) :
        /\ b.err = "none"
        /\ grid' = b.board.grid
        /\ player_location' = b.board.player_location
    /\ pc' = "built"
    /\ allowed_diections' = AllowedOrDefault(allowed_directions)
    /\ signal' = "none"
    /\ UNCHANGED << aces_high, pre_dealt, goal_card, starting_card,
                    allowed_directions, is_faceup, counter, token, moves >>
    /\ UNCHANGED deckvars

\* CartaBoard.__init__ returning
Construct ==
    /\ pc = "new"
    /\ is_valid_grid(grid)
    /\ \E b \in build(SuppliedDeck, grid, goal_card, starting_card) :
        /\ b.err = "none"
        /\ grid' = b.board.grid
        /\ player_location' = b.board.player_location
    /\ pc' = "built"
    /\ is_faceup' = is_faceup \cup {starting_card}
    /\ allowed_diections' = AllowedOrDefault(allowed_directions)
    /\ signal' = "none"
    /\ UNCHANGED << aces_high, pre_dealt, goal_card, starting_card,
                    allowed_directions, counter, token, moves >>
    /\ UNCHANGED deckvars

(* ---- the session --------------------------------------------------------- *)

\* a Python subscript: seq[k] raises IndexError outside -len..len-1 and
\* counts from the end for a negative k
InRange(seq, k) == -Len(seq) <= k /\ k < Len(seq)

Subscript(seq, k) == IF k < 0 THEN seq[Len(seq) + k + 1] ELSE seq[k + 1]

\* the parser asserting membership before it looks for the quit member
parse_input_direction_AllowedFirst(line, allowed) ==
    LET name == Upper(line)
    IN  IF name \notin DirectionNames
        THEN [raised |-> "ValueError", direction |-> 0]
        ELSE LET direction == DirectionByName(name)
             IN  IF direction \notin allowed
                 THEN [raised |-> "ValueError", direction |-> direction]
                 ELSE IF direction = Direction.Q
                 THEN [raised |-> "SystemExit", direction |-> direction]
                 ELSE [raised |-> "none", direction |-> direction]

\* CartaBoard._parse_input_direction
parse_input_direction(line, allowed) ==
    LET name == Upper(line)
    IN  IF name \notin DirectionNames
        THEN [raised |-> "ValueError", direction |-> 0]
        ELSE LET direction == DirectionByName(name)
             IN  IF direction = Direction.Q
                 THEN [raised |-> "SystemExit", direction |-> direction]
                 ELSE IF direction \notin allowed
                 THEN [raised |-> "ValueError", direction |-> direction]
                 ELSE [raised |-> "none", direction |-> direction]

\* _new_location with the S branch copied from the E branch
new_location_SouthAsEast(loc, direction) ==
    LET ns == loc[1]
        we == loc[2]
    IN  CASE direction = Direction.N ->
                [raised |-> "none", loc |-> <<ns - 1, we>>]
          [] direction = Direction.S ->
                [raised |-> "none", loc |-> <<ns, we + 1>>]
          [] direction = Direction.W ->
                [raised |-> "none", loc |-> <<ns, we - 1>>]
          [] direction = Direction.E ->
                [raised |-> "none", loc |-> <<ns, we + 1>>]
          [] OTHER ->
                [raised |-> "NotImplementedError", loc |-> loc]

\* CartaBoard._new_location
new_location(loc, direction) ==
    LET ns == loc[1]
        we == loc[2]
    IN  CASE direction = Direction.N ->
                [raised |-> "none", loc |-> <<ns - 1, we>>]
          [] direction = Direction.S ->
                [raised |-> "none", loc |-> <<ns + 1, we>>]
          [] direction = Direction.W ->
                [raised |-> "none", loc |-> <<ns, we - 1>>]
          [] direction = Direction.E ->
                [raised |-> "none", loc |-> <<ns, we + 1>>]
          [] OTHER ->
                [raised |-> "NotImplementedError", loc |-> loc]

\* _is_valid_move without the assertion that ns and we are not negative
is_valid_move_NoSignCheck(g, loc, direction) ==
    LET new == new_location(loc, direction)
        ns == new.loc[1]
        we == new.loc[2]
    IN  IF new.raised # "none" THEN new.raised
        ELSE IF ~InRange(g, ns) THEN "ValueError"
        ELSE IF ~InRange(Subscript(g, ns), we) THEN "ValueError"
        ELSE IF ~IsCard(Subscript(Subscript(g, ns), we)) THEN "ValueError"
        ELSE "True"

\* CartaBoard._is_valid_move: True, or the exception that leaves it
is_valid_move(g, loc, direction) ==
    LET new == new_location(loc, direction)
        ns == new.loc[1]
        we == new.loc[2]
    IN  IF new.raised # "none" THEN new.raised
        ELSE IF ~InRange(g, ns) THEN "ValueError"
        ELSE IF ~InRange(Subscript(g, ns), we) THEN "ValueError"
        ELSE IF ~(ns >= 0 /\ we >= 0) THEN "ValueError"
        ELSE IF ~IsCard(Subscript(Subscript(g, ns), we)) THEN "ValueError"
        ELSE "True"

\* CartaBoard.start up to the loop; show_player_location needs the attribute
Start ==
    /\ pc = "built"
    /\ player_location # Unset
    /\ pc' = "playing"
    /\ counter' = TurnBudget
    /\ UNCHANGED << aces_high, pre_dealt, grid, goal_card, starting_card,
                    allowed_directions, allowed_diections, player_location,
                    is_faceup, token, signal, moves >>
    /\ UNCHANGED deckvars

\* CartaBoard.start on a board whose build never set player_location
StartCrash ==
    /\ pc = "built"
    /\ player_location = Unset
    /\ pc' = "crashed"
    /\ signal' = "AttributeError"
    /\ UNCHANGED << aces_high, pre_dealt, grid, goal_card, starting_card,
                    allowed_directions, allowed_diections, player_location,
                    is_faceup, counter, token, moves >>
    /\ UNCHANGED deckvars

Prompting == pc = "playing" /\ counter > 0

\* _move: sys.exit(0) inside _parse_input_direction ends the program
MoveQuit(line) ==
    /\ Prompting
    /\ parse_input_direction(line, allowed_diections).raised = "SystemExit"
    /\ pc' = "quit"
    /\ token' = line
    /\ signal' = "SystemExit"
    /\ UNCHANGED << aces_high, pre_dealt, grid, goal_card, starting_card,
                    allowed_directions, allowed_diections, player_location,
                    is_faceup, counter, moves >>
    /\ UNCHANGED deckvars

\* _move: _parse_input_direction raises ValueError, caught, loop continues
MoveInvalidDirection(line) ==
    /\ Prompting
    /\ parse_input_direction(line, allowed_diections).raised = "ValueError"
    /\ token' = line
    /\ signal' = "InvalidDirection"
    /\ UNCHANGED << pc, aces_high, pre_dealt, grid, goal_card, starting_card,
                    allowed_directions, allowed_diections, player_location,
                    is_faceup, counter, moves >>
    /\ UNCHANGED deckvars

\* _move: _new_location raises NotImplementedError, which nothing catches
MoveNotImplemented(line) ==
    LET p == parse_input_direction(line, allowed_diections)
    IN  /\ Prompting
        /\ p.raised = "none"
        /\ is_valid_move(grid, player_location, p.direction)
                = "NotImplementedError"
        /\ pc' = "crashed"
        /\ token' = line
        /\ signal' = "NotImplementedError"
        /\ UNCHANGED << aces_high, pre_dealt, grid, goal_card, starting_card,
                        allowed_directions, allowed_diections,
                        player_location, is_faceup, counter, moves >>
        /\ UNCHANGED deckvars

\* _move: _is_valid_move raises ValueError, caught, loop continues
MoveIllegal(line) ==
    LET p == parse_input_direction(line, allowed_diections)
    IN  /\ Prompting
        /\ p.raised = "none"
        /\ is_valid_move(grid, player_location, p.direction) = "ValueError"
        /\ token' = line
        /\ signal' = "IllegalMove"
        /\ UNCHANGED << pc, aces_high, pre_dealt, grid, goal_card,
                        starting_card, allowed_directions, allowed_diections,
                        player_location, is_faceup, counter, moves >>
        /\ UNCHANGED deckvars

\* _move calling flip() on the card instead of setting is_faceup = True
Move_Flip(line) ==
    LET p == parse_input_direction(line, allowed_diections)
    IN  /\ Prompting
        /\ p.raised = "none"
        /\ is_valid_move(grid, player_location, p.direction) = "True"
        /\ LET new == new_location(player_location, p.direction).loc
               card == Subscript(Subscript(grid, new[1]), new[2])
           IN  /\ player_location' = new
               /\ is_faceup' = IF card \in is_faceup
                               THEN is_faceup \ {card}
                               ELSE is_faceup \cup {card}
               /\ moves' = Append(moves,
                                  [from |-> player_location,
                                   direction |-> p.direction,
                                   to |-> new,
                                   faceup_before |-> is_faceup])
        /\ counter' = counter - 1
        /\ pc' = IF counter - 1 > 0 THEN "playing" ELSE "done"
        /\ token' = line
        /\ signal' = "moved"
        /\ UNCHANGED << aces_high, pre_dealt, grid, goal_card, starting_card,
                        allowed_directions, allowed_diections >>
        /\ UNCHANGED deckvars

\* _move returning after a move, and start's counter -= 1 that follows
Move(line) ==
    LET p == parse_input_direction(line, allowed_diections)
    IN  /\ Prompting
        /\ p.raised = "none"
        /\ is_valid_move(grid, player_location, p.direction) = "True"
        /\ LET new == new_location(player_location, p.direction).loc
           IN  /\ player_location' = new
               /\ is_faceup' =
                    is_faceup \cup {Subscript(Subscript(grid, new[1]), new[2])}
               /\ moves' = Append(moves,
                                  [from |-> player_location,
                                   direction |-> p.direction,
                                   to |-> new,
                                   faceup_before |-> is_faceup])
        /\ counter' = counter - 1
        /\ pc' = IF counter - 1 > 0 THEN "playing" ELSE "done"
        /\ token' = line
        /\ signal' = "moved"
        /\ UNCHANGED << aces_high, pre_dealt, grid, goal_card, starting_card,
                        allowed_directions, allowed_diections >>
        /\ UNCHANGED deckvars

Next ==
    \/ ConstructInvalidGrid
    \/ ConstructFails
    \/ Construct
    \/ Start
    \/ StartCrash
    \/ \E line \in Tokens : MoveQuit(line)
    \/ \E line \in Tokens : MoveInvalidDirection(line)
    \/ \E line \in Tokens : MoveNotImplemented(line)
    \/ \E line \in Tokens : MoveIllegal(line)
    \/ \E line \in Tokens : Move(line)

Spec == Init /\ [][Next]_vars

TypeOK ==
    /\ pc \in {"new", "built", "playing", "done", "quit", "crashed", "aborted"}
    /\ counter \in 0..TurnBudget

(* ======================================================================= *)
(* Properties                                                              *)
(* ======================================================================= *)

\* the cell at a 0-based coordinate inside the grid
CellAt(g, loc) == g[loc[1] + 1][loc[2] + 1]

\* the coordinates of a grid
CoordsOf(g) ==
    LET coords == GridCoords(g, 0)
    IN  { coords[k] : k \in 1..Len(coords) }

\* the coordinates whose cell holds a card equal, by __eq__, to card
CellsEqualTo(g, card) ==
    { loc \in CoordsOf(g) : IsCard(CellAt(g, loc)) /\ CardEq(CellAt(g, loc), card) }

\* the coordinates whose cell holds this very card object
CellsHolding(g, card) == { loc \in CoordsOf(g) : CellAt(g, loc) = card }

AllCards(g) == \A loc \in CoordsOf(g) : IsCard(CellAt(g, loc))

\* the direction an input line names, 0 when it names none
NamedDirection(line) ==
    IF Upper(line) \in DirectionNames THEN DirectionByName(Upper(line)) ELSE 0

\* the unit offset the text gives each cardinal direction
Offset(direction) ==
    CASE direction = Direction.N -> <<-1, 0>>
      [] direction = Direction.S -> <<1, 0>>
      [] direction = Direction.W -> <<0, -1>>
      [] direction = Direction.E -> <<0, 1>>

Candidate(loc, direction) ==
    <<loc[1] + Offset(direction)[1], loc[2] + Offset(direction)[2]>>

\* a prompt step that reads a line naming an allowed cardinal direction
CardinalStep ==
    /\ pc = "playing"
    /\ token' \in Tokens
    /\ NamedDirection(token') \in Cardinals \cap allowed_diections

\* C1: built from the default ace-low deck over an all-placeholder grid with
\* goal Hearts-2 and start Clubs-2, exactly one cell equals goal_card and
\* exactly one equals starting_card.
C1_OneGoalOneStart ==
    ( /\ pc = "built"
      /\ ~aces_high
      /\ pre_dealt = 0
      /\ goal_card = PlayingCard(Suit("Hearts"), 2, "goal")
      /\ starting_card = PlayingCard(Suit("Clubs"), 2, "starting")
      /\ AllCards(grid)
      /\ player_location # Unset )
    => /\ Cardinality(CellsEqualTo(grid, goal_card)) = 1
       /\ Cardinality(CellsEqualTo(grid, starting_card)) = 1

\* C2: a build that succeeds over a rows x cols all-placeholder grid with
\* 2 <= rows*cols <= deck size leaves a Card in every one of the rows*cols
\* cells.
C2_EveryCellOccupied ==
    [][ \A r \in 1..MaxRows, c \in 1..MaxCols :
          ( /\ pc = "new"
            /\ grid = create_grid(r, c)
            /\ 2 <= r * c
            /\ r * c <= Len(SuppliedDeck)
            /\ pc' = "built" )
          => /\ AllCards(grid')
             /\ Cardinality({ loc \in CoordsOf(grid') :
                                IsCard(CellAt(grid', loc)) }) = r * c
      ]_vars

C2_Witness ==
    /\ pc = "built"
    /\ Len(grid) = MaxRows
    /\ Len(grid[1]) = MaxCols
    /\ AllCards(grid)

\* C3: right after a successful build the cell holding starting_card is
\* face-up and every other cell, the goal card's included, is face-down.
C3_OnlyStartFaceUp ==
    (pc = "built" /\ player_location # Unset)
    => /\ CellAt(grid, player_location) = starting_card
       /\ \A loc \in CoordsOf(grid) :
            IsCard(CellAt(grid, loc))
            => ((CellAt(grid, loc) \in is_faceup) <=> (loc = player_location))

C3_Witness ==
    /\ pc = "built"
    /\ player_location # Unset
    /\ CellsHolding(grid, goal_card) # {}
    /\ goal_card \notin is_faceup
    /\ starting_card \in is_faceup

\* C4: a build that succeeds over a rows x cols all-placeholder grid with
\* rows*cols >= 2 puts starting_card in cell (rows-1, cols-1) and nowhere
\* else, and player_location is that coordinate.
C4_StartInLastCell ==
    [][ \A r \in 1..MaxRows, c \in 1..MaxCols :
          ( /\ pc = "new"
            /\ grid = create_grid(r, c)
            /\ 2 <= r * c
            /\ pc' = "built" )
          => /\ player_location' = <<r - 1, c - 1>>
             /\ CellsHolding(grid', starting_card) = { <<r - 1, c - 1>> }
      ]_vars

C4_Witness ==
    /\ pc = "built"
    /\ Len(grid) = 1
    /\ Len(grid[1]) = MaxCols
    /\ AllCards(grid)
    /\ player_location = <<0, MaxCols - 1>>

\* C5: a prompt that reads an allowed cardinal direction whose candidate
\* cell is in bounds and holds a Card moves player_location by the unit
\* offset and leaves that card face-up; nothing else changes face or place.
C5_MoveEffect ==
    [][ ( /\ CardinalStep
          /\ Candidate(player_location, NamedDirection(token')) \in CoordsOf(grid)
          /\ IsCard(CellAt(grid, Candidate(player_location, NamedDirection(token')))) )
        => LET cand == Candidate(player_location, NamedDirection(token'))
           IN  /\ player_location' = cand
               /\ is_faceup' = is_faceup \cup {CellAt(grid, cand)}
               /\ grid' = grid
      ]_vars

\* a session that has stepped onto a face-down card and onto a face-up one
C5_Witness ==
    /\ signal = "moved"
    /\ \E k \in 1..Len(moves) :
            CellAt(grid, moves[k].to) \notin moves[k].faceup_before
    /\ \E k \in 1..Len(moves) :
            CellAt(grid, moves[k].to) \in moves[k].faceup_before

\* C6: a move N, S, E or W whose candidate coordinate has a negative row or
\* column, lies past the last row or column, or holds a placeholder is
\* rejected as an illegal move; player_location and every face state stay.
C6_IllegalMoveRejected ==
    [][ ( /\ CardinalStep
          /\ \/ Candidate(player_location, NamedDirection(token')) \notin CoordsOf(grid)
             \/ ~IsCard(CellAt(grid, Candidate(player_location, NamedDirection(token')))) )
        => /\ signal' = "IllegalMove"
           /\ pc' = "playing"
           /\ UNCHANGED << player_location, is_faceup, grid, counter >>
      ]_vars

\* N refused in row 0 although the cell at the opposite edge holds a card
C6_Witness ==
    /\ pc = "playing"
    /\ signal = "IllegalMove"
    /\ NamedDirection(token) = Direction.N
    /\ player_location[1] = 0
    /\ Len(grid) >= 2
    /\ IsCard(CellAt(grid, <<Len(grid) - 1, player_location[2]>>))

\* C7: under every allowed_directions configuration a line that names no
\* direction, a diagonal, or a direction outside allowed_directions signals
\* the invalid-direction condition, the prompt repeats and nothing changes.
C7_InvalidDirectionReprompts ==
    [][ ( /\ pc = "playing"
          /\ token' \in Tokens
          /\ NamedDirection(token') # Direction.Q
          /\ \/ NamedDirection(token') = 0
             \/ NamedDirection(token') \in Diagonals
             \/ NamedDirection(token') \notin allowed_diections )
        => /\ signal' = "InvalidDirection"
           /\ pc' = "playing"
           /\ UNCHANGED << player_location, is_faceup, grid, counter >>
      ]_vars

\* C8: Q, QUIT or EXIT in any letter case ends the session at once: no step
\* follows it, and player_location and the face states are as before it.
C8_QuitEndsSession ==
    [][ /\ pc # "quit"
        /\ ( /\ pc = "playing"
             /\ token' \in Tokens
             /\ Upper(token') \in
                    { <<"Q">>, <<"Q", "U", "I", "T">>, <<"E", "X", "I", "T">> } )
           => /\ pc' = "quit"
              /\ UNCHANGED << player_location, is_faceup, grid >>
      ]_vars

\* quit in lower case after a move, where Q is no allowed direction
C8_Witness ==
    /\ pc = "quit"
    /\ token = <<"q", "u", "i", "t">>
    /\ moves # <<>>
    /\ Direction.Q \notin allowed_diections

\* C9: a session that was not quit is over only after exactly 5 moves.
C9_FiveMovesOrQuit ==
    (pc \in {"done", "crashed"} /\ player_location # Unset)
    => Len(moves) = TurnBudget

Opposite(d, e) ==
    \/ d = Direction.N /\ e = Direction.S
    \/ d = Direction.S /\ e = Direction.N
    \/ d = Direction.E /\ e = Direction.W
    \/ d = Direction.W /\ e = Direction.E

\* the face-up cards right after the k-th move
FaceupAfter(k) == IF k < Len(moves) THEN moves[k + 1].faceup_before ELSE is_faceup

\* C10: a move followed by the move in the opposite direction ends where the
\* first one began, and all that differs afterwards is that the visited
\* neighbour's card is face-up.
C10_ThereAndBack ==
    \A k \in 1..(Len(moves) - 1) :
        Opposite(moves[k].direction, moves[k + 1].direction)
        => /\ moves[k + 1].to = moves[k].from
           /\ FaceupAfter(k + 1) =
                moves[k].faceup_before \cup {CellAt(grid, moves[k].to)}

\* N onto a face-down card, then S
C10_Witness ==
    /\ Len(moves) >= 2
    /\ moves[1].direction = Direction.N
    /\ moves[2].direction = Direction.S
    /\ CellAt(grid, moves[1].to) \notin moves[1].faceup_before

\* every row of g is as long as every other
Rectangular(g) == \A i, k \in 1..Len(g) : Len(g[i]) = Len(g[k])

C18_StartAlwaysPlaced ==
    [][ ( /\ pc = "new"
          /\ is_valid_grid(grid)
          /\ IndexOf(SuppliedDeck, starting_card) # 0
          /\ IndexOf(SuppliedDeck, goal_card) # 0
          /\ pc' = "built" )
        => /\ Cardinality(CellsHolding(grid', starting_card)) = 1
           /\ player_location' # Unset
           /\ CellsHolding(grid', starting_card) = {player_location'}
      ]_vars

\* the coordinates whose card is face-up
FaceUpCells == { loc \in CoordsOf(grid) : CellAt(grid, loc) \in is_faceup }

\* the coordinates the recorded moves ended on
MovedOnto == { moves[k].to : k \in 1..Len(moves) }

\* C20: once the constructor has returned a board whose every cell holds a
\* card, whatever lines are read, player_location is a coordinate of the
\* grid whose cell holds a Card, and the face-up cells are the cell of
\* starting_card and the cells moved onto, no more and no fewer.
C20_LocationAndFaces ==
    (pc \in {"built", "playing", "done", "quit", "crashed"} /\ AllCards(grid))
    => /\ player_location # Unset
       /\ player_location[1] \in 0..(Len(grid) - 1)
       /\ player_location[2] \in 0..(Len(grid[1]) - 1)
       /\ IsCard(CellAt(grid, player_location))
       /\ FaceUpCells = CellsHolding(grid, starting_card) \cup MovedOnto
       /\ Cardinality(CellsHolding(grid, starting_card)) = 1

(* ======================================================================= *)
(* The deck operations on their own                                        *)
(* ======================================================================= *)

\* longest deck the operations are tried on
MaxDeckLen == 3

\* Deck.take: the element found, or None, and the deck that is left
take(deck_cards, card) ==
    LET k == IndexOf(deck_cards, card)
    IN  IF k = 0 THEN [value |-> Nothing, cards |-> deck_cards]
        ELSE [value |-> deck_cards[k], cards |-> remove(deck_cards, card).cards]

\* the board variables while only a deck is exercised
BoardUnused ==
    /\ pc = "none"
    /\ aces_high = FALSE
    /\ pre_dealt = 0
    /\ grid = <<>>
    /\ goal_card = Nothing
    /\ starting_card = Nothing
    /\ allowed_directions = {}
    /\ allowed_diections = {}
    /\ player_location = Unset
    /\ is_faceup = {}
    /\ counter = 0
    /\ token = <<>>
    /\ signal = "none"
    /\ moves = <<>>

\* the clubs and hearts of an ace-low deck: each clubs card has an equal
\* hearts card that is another object
DeckOpCards ==
    LET deck == PlayingCardDeck(FALSE)
    IN  { deck[k] : k \in { j \in 1..Len(deck) :
                              deck[j].suit.name \in {"Clubs", "Hearts"} } }

\* decks of up to MaxDeckLen of these cards, in any order
InputDecks ==
    UNION { { d \in [1..n -> DeckOpCards] :
                \A j, k \in 1..n : j # k => d[j] # d[k] } :
            n \in 0..MaxDeckLen }

\* cards the caller constructs to name a card of the deck; the highest
\* value is in no deck
CallerCards ==
    { PlayingCard(Suit("Hearts"), v, "caller") : v \in 1..(RanksPerSuit + 1) }

InitDeckOps ==
    /\ BoardUnused
    /\ cards \in InputDecks
    /\ include_jokers = FALSE
    /\ op = "none"
    /\ argument = Nothing
    /\ before = <<>>
    /\ result = Nothing
    /\ idx = 0

\* no operation is in the middle of its loop
Callable == op # "shuffling"

\* Deck.deal returning
Deal(n) ==
    /\ Callable
    /\ ~deal(cards, n).err
    /\ op' = "deal"
    /\ argument' = n
    /\ before' = cards
    /\ cards' = deal(cards, n).cards
    /\ result' = [raised |-> "none", value |-> deal(cards, n).dealt]
    /\ UNCHANGED << include_jokers, idx, boardvars >>

\* Deck.deal leaving by the IndexError of popleft
DealUnderflow(n) ==
    /\ Callable
    /\ deal(cards, n).err
    /\ op' = "deal"
    /\ argument' = n
    /\ before' = cards
    /\ cards' = deal(cards, n).cards
    /\ result' = [raised |-> "IndexError", value |-> Nothing]
    /\ UNCHANGED << include_jokers, idx, boardvars >>

\* Deck.remove returning
Remove(card) ==
    /\ Callable
    /\ ~remove(cards, card).err
    /\ op' = "remove"
    /\ argument' = card
    /\ before' = cards
    /\ cards' = remove(cards, card).cards
    /\ result' = [raised |-> "none", value |-> Nothing]
    /\ UNCHANGED << include_jokers, idx, boardvars >>

\* Deck.remove leaving by the ValueError of deque.remove
RemoveNotFound(card) ==
    /\ Callable
    /\ remove(cards, card).err
    /\ op' = "remove"
    /\ argument' = card
    /\ before' = cards
    /\ cards' = remove(cards, card).cards
    /\ result' = [raised |-> "ValueError", value |-> Nothing]
    /\ UNCHANGED << include_jokers, idx, boardvars >>

\* Deck.take
Take(card) ==
    /\ Callable
    /\ op' = "take"
    /\ argument' = card
    /\ before' = cards
    /\ cards' = take(cards, card).cards
    /\ result' = [raised |-> "none", value |-> take(cards, card).value]
    /\ UNCHANGED << include_jokers, idx, boardvars >>

\* Deck.shuffle entering the loop of shuffle: i = len(lst) - 1
ShuffleCall ==
    /\ Callable
    /\ op' = "shuffling"
    /\ argument' = Nothing
    /\ before' = cards
    /\ result' = Nothing
    /\ idx' = Len(cards) - 1
    /\ UNCHANGED << cards, include_jokers, boardvars >>

\* one pass of the loop: draw r, swap, step i down
ShuffleStep ==
    /\ op = "shuffling"
    /\ idx >= 1
    /\ \E r \in Randint(idx) : cards' = Swap(cards, idx, r)
    /\ idx' = idx - 1
    /\ UNCHANGED << include_jokers, op, argument, before, result, boardvars >>

\* the loop is over: range(len(lst) - 1, 0, -1) stops before 0
ShuffleReturn ==
    /\ op = "shuffling"
    /\ idx < 1
    /\ op' = "shuffled"
    /\ UNCHANGED << cards, include_jokers, argument, before, result, idx,
                    boardvars >>

NextDeckOps ==
    \/ \E n \in -1..(MaxDeckLen + 1) : Deal(n)
    \/ \E n \in -1..(MaxDeckLen + 1) : DealUnderflow(n)
    \/ \E card \in CallerCards : Remove(card)
    \/ \E card \in CallerCards : RemoveNotFound(card)
    \/ \E card \in CallerCards : Take(card)
    \/ ShuffleCall
    \/ ShuffleStep
    \/ ShuffleReturn

SpecDeckOps == InitDeckOps /\ [][NextDeckOps]_vars

(* ---- properties of the deck operations -------------------------------- *)

\* how many positions of s hold the object c
Count(c, s) == Cardinality({ k \in 1..Len(s) : s[k] = c })

\* s with position k taken out
Without(s, k) == SubSeq(s, 1, k - 1) \o SubSeq(s, k + 1, Len(s))

\* the positions of s whose element is equal, by __eq__, to c
EqualPositions(s, c) == { k \in 1..Len(s) : CardEq(s[k], c) }

\* every ordering of the elements of a sequence of distinct elements
Orderings(s) ==
    { p \in [1..Len(s) -> { s[k] : k \in 1..Len(s) }] :
        \A j, k \in 1..Len(s) : j # k => p[j] # p[k] }

\* C11: while shuffle runs and when it has returned, the sequence has the
\* length it had at the call and holds every card as often as it did then;
\* a sequence of at most one element is never changed.
C11_ShuffleIsPermutation ==
    op \in {"shuffling", "shuffled"} =>
        /\ Len(cards) = Len(before)
        /\ \A c \in DeckOpCards : Count(c, cards) = Count(c, before)
        /\ Len(before) <= 1 => cards = before

\* a swap step has changed the order and the loop has not finished
C11_Witness ==
    /\ op = "shuffling"
    /\ idx >= 1
    /\ idx < Len(before) - 1
    /\ cards # before

\* C12: deal(n) with 0 <= n <= len(deck) returns the first n cards in their
\* order and leaves the rest of the deck in its order, n cards shorter;
\* deal(0) returns nothing and leaves the deck as it was.
C12_DealPrefix ==
    (op = "deal" /\ argument >= 0 /\ argument <= Len(before)) =>
        /\ result.raised = "none"
        /\ result.value = SubSeq(before, 1, argument)
        /\ cards = SubSeq(before, argument + 1, Len(before))
        /\ Len(cards) = Len(before) - argument
        /\ argument = 0 => (result.value = <<>> /\ cards = before)

\* two cards dealt from a deck that keeps at least one
C12_Witness ==
    /\ op = "deal"
    /\ argument >= 2
    /\ argument < Len(before)
    /\ result.raised = "none"
    /\ Len(result.value) = argument

\* C13: deal(n) with n above the length of the deck leaves by IndexError,
\* hands no card to the caller, and leaves the deck empty: the cards popped
\* before the failure are gone.
C13_DealUnderflow ==
    (op = "deal" /\ argument > Len(before)) =>
        /\ result.raised = "IndexError"
        /\ result.value = Nothing
        /\ cards = <<>>

\* the deck held cards when the failing deal began
C13_Witness ==
    /\ op = "deal"
    /\ argument > Len(before)
    /\ Len(before) >= 2
    /\ result.raised = "IndexError"

\* C14: remove(card) takes out the first element equal to card and keeps
\* the others in order, and leaves by ValueError with the deck unchanged
\* when none is equal; take(card) changes the deck as remove does and
\* returns the element it found, and returns None with the deck unchanged
\* when none is equal.
C14_RemoveAndTake ==
    op \in {"remove", "take"} =>
        LET hits == EqualPositions(before, argument)
        IN  /\ \A k \in hits :
                  (\A j \in hits : k <= j) =>
                      /\ cards = Without(before, k)
                      /\ result.raised = "none"
                      /\ op = "take" => result.value = before[k]
            /\ hits = {} =>
                  /\ cards = before
                  /\ op = "remove" => result.raised = "ValueError"
                  /\ op = "take" =>
                        (result.raised = "none" /\ result.value = Nothing)

\* take found the first of two equal elements, which is not the object the
\* caller passed
C14_Witness ==
    /\ op = "take"
    /\ Cardinality(EqualPositions(before, argument)) = 2
    /\ result.value # Nothing
    /\ result.value # argument
    /\ Len(cards) = Len(before) - 1

\* C19: the loop of shuffle starts at i = len - 1, each pass swaps positions
\* i and r for some r in 0..i and steps i down by one, and it stops after
\* i = 1; at the call every ordering of the cards is a possible outcome, and
\* the outcome is one of them.
C19_FisherYates ==
    [][ /\ (op # "shuffling" /\ op' = "shuffling") =>
              /\ idx' = Len(cards') - 1
              /\ shuffle(cards') = Orderings(cards')
        /\ (op = "shuffling" /\ op' = "shuffling") =>
              /\ idx >= 1
              /\ idx' = idx - 1
              /\ \E r \in 0..idx :
                    /\ cards'[idx + 1] = cards[r + 1]
                    /\ cards'[r + 1] = cards[idx + 1]
                    /\ \A k \in 1..Len(cards) :
                          k \notin {idx + 1, r + 1} => cards'[k] = cards[k]
        /\ (op = "shuffling" /\ op' = "shuffled") =>
              /\ idx = 0 \/ Len(before) = 0
              /\ cards' \in shuffle(before)
      ]_vars

\* a shuffle of a full-length deck that returned the order it was given
C19_Witness ==
    /\ op = "shuffled"
    /\ Len(before) = MaxDeckLen
    /\ cards = before

(* ======================================================================= *)
(* PlayingCardDeck._build, card by card                                    *)
(* ======================================================================= *)

\* joker_colors
JokerColors == << "RED", "BLACK" >>

\* the joker appended for a colour
Joker(color) ==
    PlayingCard([name |-> "None", value |-> JokerValue, color |-> color],
                JokerValue, "deck")

\* PlayingCardDeck(aces_high=..., include_jokers=...) with the default suits,
\* after super().__init__() and before _build
InitDeckBuild ==
    /\ pc = "none"
    /\ aces_high \in BOOLEAN
    /\ pre_dealt = 0
    /\ grid = <<>>
    /\ goal_card = Nothing
    /\ starting_card = Nothing
    /\ allowed_directions = {}
    /\ allowed_diections = {}
    /\ player_location = Unset
    /\ is_faceup = {}
    /\ counter = 0
    /\ token = <<>>
    /\ signal = "none"
    /\ moves = <<>>
    /\ cards = <<>>
    /\ include_jokers \in BOOLEAN
    /\ op = "building"
    /\ argument = Nothing
    /\ before = <<>>
    /\ result = Nothing
    /\ idx = 0

\* one pass of the inner loop; idx counts the passes made so far
BuildAppend ==
    /\ op = "building"
    /\ idx < Len(DefaultSuits) * CardsPerSuit
    /\ cards' = Append(cards,
                       PlayingCard(DefaultSuits[(idx \div CardsPerSuit) + 1],
                                   MinRange(aces_high) + (idx % CardsPerSuit),
                                   "deck"))
    /\ idx' = idx + 1
    /\ UNCHANGED << include_jokers, op, argument, before, result, boardvars >>

\* if self.include_jokers: the two jokers are appended
BuildJokers ==
    /\ op = "building"
    /\ idx = Len(DefaultSuits) * CardsPerSuit
    /\ include_jokers
    /\ cards' = cards \o [k \in 1..Len(JokerColors) |-> Joker(JokerColors[k])]
    /\ op' = "built"
    /\ UNCHANGED << include_jokers, argument, before, result, idx, boardvars >>

\* _build returns without jokers
BuildReturn ==
    /\ op = "building"
    /\ idx = Len(DefaultSuits) * CardsPerSuit
    /\ ~include_jokers
    /\ op' = "built"
    /\ UNCHANGED << cards, include_jokers, argument, before, result, idx,
                    boardvars >>

NextDeckBuild == BuildAppend \/ BuildJokers \/ BuildReturn

SpecDeckBuild == InitDeckBuild /\ [][NextDeckBuild]_vars

(* ---- properties of the built deck -------------------------------------- *)

\* the positions of a deck holding the card of a suit name and a rank
PositionsOf(s, name, rank) ==
    { k \in 1..Len(s) : s[k].suit.name = name /\ s[k].value = rank }

\* C15: a deck built without jokers has 52 cards, for each of the four suits
\* exactly one card of each rank 2..14 (aces high) or 1..13 (aces low) and no
\* other, and the cards stand suit by suit in ascending rank.
C15_FiftyTwoCards ==
    (op = "built" /\ ~include_jokers) =>
        LET lo == IF aces_high THEN 2 ELSE 1
            hi == IF aces_high THEN 14 ELSE 13
            names == << "Clubs", "Diamonds", "Hearts", "Spades" >>
        IN  /\ Len(cards) = 52
            /\ \A n \in 1..4 :
                  /\ Cardinality({ k \in 1..52 : cards[k].suit.name = names[n] })
                        = 13
                  /\ { cards[k].value :
                         k \in { j \in 1..52 : cards[j].suit.name = names[n] } }
                        = lo..hi
                  /\ \A rank \in lo..hi :
                        PositionsOf(cards, names[n], rank)
                            = { (n - 1) * 13 + (rank - lo) + 1 }

\* both kinds of deck have been built
C15_Witness ==
    /\ op = "built"
    /\ ~include_jokers
    /\ aces_high
    /\ Len(cards) = 52
    /\ cards[1].value = 2
    /\ cards[52].value = 14

\* C17: the default suits have the distinct values 1..4, so no two cards of
\* the default deck are equal by __eq__.
C17_DefaultSuitsRanked ==
    (op = "built" /\ ~include_jokers) =>
        /\ { DefaultSuits[n].value : n \in 1..Len(DefaultSuits) } = 1..4
        /\ \A j, k \in 1..Len(cards) :
              j # k => ~CardEq(cards[j], cards[k])

====
